---- MODULE Spec2Model ----
(***************************************************************************)
(* Slack slash-command webhooks: admission (configuration check, handshake,*)
(* signature enforcement), synchronous acknowledgment, and the deferred    *)
(* delivery task of the four endpoints (emojify, sick, legacy sick,        *)
(* farming).                                                               *)
(*                                                                         *)
(* Representation.  A string is a sequence of tokens (each token a TLA+    *)
(* string standing for a run of characters); the empty string is << >>.    *)
(* A nullable value is NULL (absent) or Some(v).  A form-encoded body is a *)
(* sequence of <<key, value>> pairs.                                       *)
(***************************************************************************)
EXTENDS Integers, Sequences, FiniteSets, TLC

VARIABLES
    env,        \* process.env: SLACK_SIGNING_SECRET, CLAUDE_API_KEY, NODE_ENV
    pc,         \* per request: position of the POST handler
    endpoint,   \* per request: which route received it
    req,        \* per request: headers, raw body, Date.now() in seconds
    bodyRead,   \* per request: req.text() has been called
    response,   \* per request: the HTTP response returned (NULL before)
    tpc,        \* per request: position of the deferred task
    api,        \* per request: state of anthropic.messages.create promise
    genContent, \* per request: content the generation call resolved with
    timer,      \* per request: state of the 45 s setTimeout
    elapsed,    \* per request: state of the generation call 45 s after its start
    posts,      \* per request: bodies of the fetch() calls to response_url
    fetched,    \* per request: how each settled fetch() settled
    logs,       \* per request: console.error labels written by the task
    hist,       \* per request: order of the ack and the generation call
    call        \* a direct call of verifySlackSignature: arguments and outcome

vars == <<env, pc, endpoint, req, bodyRead, response, tpc, api, genContent,
          timer, elapsed, posts, fetched, logs, hist, call>>

----------------------------------------------------------------------------
(* Nullable values and strings *)

NULL == << >>

Some(v) == <<v>>

Val(o) == o[1]

EmptyStr == << >>

\* JavaScript truthiness of a nullable string: null, undefined and "" are falsy
Truthy(o) == o # NULL /\ Val(o) # EmptyStr

Whitespace == {" ", "\n"}

RECURSIVE TrimStart(_)
TrimStart(s) ==
    IF s = << >> THEN s
    ELSE IF Head(s) \in Whitespace THEN TrimStart(Tail(s)) ELSE s

RECURSIVE TrimEnd(_)
TrimEnd(s) ==
    IF s = << >> THEN s
    ELSE IF s[Len(s)] \in Whitespace THEN TrimEnd(SubSeq(s, 1, Len(s) - 1)) ELSE s

\* String.prototype.trim
Trim(s) == TrimEnd(TrimStart(s))

\* URLSearchParams.get: the value of the first pair named k, or null
RECURSIVE Get(_, _)
Get(params, k) ==
    IF params = << >> THEN NULL
    ELSE IF Head(params)[1] = k THEN Some(Head(params)[2])
    ELSE Get(Tail(params), k)

\* a ?? b
Coalesce(o, d) == IF o = NULL THEN d ELSE Val(o)

----------------------------------------------------------------------------
(* Signature verifier *)

fiveMinutes == 60 * 5

HexDigestLen == 64

\* A timestamp header value: a decimal numeral, or text that is no number
NumStr(n) == [num |-> TRUE, n |-> n, txt |-> "digits"]

TxtStr(t) == [num |-> FALSE, n |-> 0, txt |-> t]

Abs(n) == IF n < 0 THEN 0 - n ELSE n

\* variant: the difference is compared without Math.abs
StaleNoAbs(now, timestamp) == timestamp.num /\ now - timestamp.n > fiveMinutes

\* Math.abs(now - Number(timestamp)) > fiveMinutes; Number() of text that is
\* no numeral is NaN, and every comparison with NaN is false
Stale(now, timestamp) == timestamp.num /\ Abs(now - timestamp.n) > fiveMinutes

\* createHmac('sha256', key).update(base).digest('hex'): injective in (key, base)
Hmac(key, base) == <<key, base>>

\* variant: the raw body is left out of the signed string
BaseTimestampOnly(timestamp, rawBody) == <<"v0", timestamp, << >>>>

\* `v0:${timestamp}:${rawBody}`
Base(timestamp, rawBody) == <<"v0", timestamp, rawBody>>

\* `v0=${hmac}`
ExpectedToken(signingSecret, timestamp, rawBody) ==
    [len |-> 3 + HexDigestLen, prefix |-> "v0=",
     mac |-> Hmac(signingSecret, Base(timestamp, rawBody))]

\* crypto.timingSafeEqual: throws when the byte lengths differ
TimingSafeEqual(a, b) ==
    IF a.len # b.len THEN [threw |-> TRUE, eq |-> FALSE]
    ELSE [threw |-> FALSE, eq |-> (a = b)]

EmptyTs == TxtStr("")

EmptySig == [len |-> 0, prefix |-> "", mac |-> << >>]

\* !timestamp, !signature: null and "" are falsy
Absent(o, empty) == o = NULL \/ Val(o) = empty

\* variant: the comparison is not wrapped in try/catch
verifyOutcomeNoCatch(signingSecret, timestamp, signature, rawBody, now) ==
    IF Absent(timestamp, EmptyTs) \/ Absent(signature, EmptySig)
    THEN [threw |-> FALSE, value |-> FALSE]
    ELSE IF Stale(now, Val(timestamp))
    THEN [threw |-> FALSE, value |-> FALSE]
    ELSE LET cmp == TimingSafeEqual(
                        ExpectedToken(signingSecret, Val(timestamp), rawBody),
                        Val(signature))
         IN  IF cmp.threw THEN [threw |-> TRUE, value |-> FALSE]
             ELSE [threw |-> FALSE, value |-> cmp.eq]

\* the body of verifySlackSignature: what it returns, and whether an
\* exception leaves it (the try/catch turns a throwing comparison into false)
verifyOutcome(signingSecret, timestamp, signature, rawBody, now) ==
    IF Absent(timestamp, EmptyTs) \/ Absent(signature, EmptySig)
    THEN [threw |-> FALSE, value |-> FALSE]
    ELSE IF Stale(now, Val(timestamp))
    THEN [threw |-> FALSE, value |-> FALSE]
    ELSE LET cmp == TimingSafeEqual(
                        ExpectedToken(signingSecret, Val(timestamp), rawBody),
                        Val(signature))
         IN  IF cmp.threw THEN [threw |-> FALSE, value |-> FALSE]
             ELSE [threw |-> FALSE, value |-> cmp.eq]

\* the value a caller of verifySlackSignature gets
verifySlackSignature(signingSecret, timestamp, signature, rawBody, now) ==
    verifyOutcome(signingSecret, timestamp, signature, rawBody, now).value

----------------------------------------------------------------------------
(* Responses *)

PlainResponse(text, status) ==
    [status |-> status, json |-> FALSE, response_type |-> NULL, text |-> text]

\* createAckResponse, and the inline ack of the sick routes
createAckResponse(text, responseType) ==
    [status |-> 200, json |-> TRUE, response_type |-> Some(responseType),
     text |-> text]

MissingEnvVars == PlainResponse(<<"Missing env vars">>, 500)

BadSignature == PlainResponse(<<"Bad signature">>, 401)

----------------------------------------------------------------------------
(* Request admission *)

\* variant: only the signing secret is checked
ConfigMissingSigningOnly(e) == ~Truthy(e.SLACK_SIGNING_SECRET)

\* !signingSecret || !claudeKey
ConfigMissing(e) ==
    ~Truthy(e.SLACK_SIGNING_SECRET) \/ ~Truthy(e.CLAUDE_API_KEY)

\* maybeParams.get('type') === 'url_verification'
IsUrlVerification(rawBody) == Get(rawBody, "type") = Some(<<"url_verification">>)

\* variant: the mode is compared with a string NODE_ENV never holds
EnforceSignatureProd(e) == e.NODE_ENV = Some(<<"prod">>)

\* variant: the signature is enforced in every mode
EnforceSignatureAlways(e) == TRUE

\* process.env.NODE_ENV === 'production'
EnforceSignature(e) == e.NODE_ENV = Some(<<"production">>)

\* variant: the signature is checked before the handshake
ValidateBodySignatureFirst(e, rq) ==
    IF EnforceSignature(e)
       /\ ~verifySlackSignature(Val(e.SLACK_SIGNING_SECRET), rq.ts, rq.sig,
                                rq.rawBody, rq.now)
    THEN [error |-> Some(BadSignature)]
    ELSE IF IsUrlVerification(rq.rawBody)
    THEN [error |-> Some(PlainResponse(
                        Coalesce(Get(rq.rawBody, "challenge"), EmptyStr), 200))]
    ELSE [error |-> NULL]

\* validateSlackRequest from req.text() on (the same steps are inlined in the
\* sick routes): handshake first, then the signature in production
ValidateBody(e, rq) ==
    IF IsUrlVerification(rq.rawBody)
    THEN [error |-> Some(PlainResponse(
                        Coalesce(Get(rq.rawBody, "challenge"), EmptyStr), 200))]
    ELSE IF EnforceSignature(e)
            /\ ~verifySlackSignature(Val(e.SLACK_SIGNING_SECRET), rq.ts, rq.sig,
                                     rq.rawBody, rq.now)
    THEN [error |-> Some(BadSignature)]
    ELSE [error |-> NULL]

\* variant: the guard tests response_url against null only
ShouldDeferNonNull(validation, responseUrl) ==
    validation.error = NULL /\ responseUrl # NULL

\* variant: the handler does not return early on a validation error
ShouldDeferNoEarlyReturn(validation, responseUrl) == Truthy(responseUrl)

\* if ('error' in validation) return ...; if (responseUrl) after(...)
ShouldDefer(validation, responseUrl) ==
    validation.error = NULL /\ Truthy(responseUrl)

----------------------------------------------------------------------------
(* Endpoints *)

Endpoints == {"emojify", "sick", "legacySick", "farming"}

\* the routes that deliver through sendSlackMessage of utils.ts
UsesUtils(ep) == ep \in {"emojify", "farming"}

\* the routes that register the task with after(); legacySick runs an
\* immediately-invoked async function instead
UsesAfter(ep) == ep # "legacySick"

\* the routes that race the generation call against setTimeout(45000)
HasTimer(ep) == ep # "legacySick"

AckText(ep) ==
    CASE ep = "emojify" -> <<"_Translating to emoji..._">>
      [] ep = "farming" -> <<"_Consulting the almanac..._">>
      [] OTHER          -> <<"_Calibrating immune system..._">>

ResponseType(ep) == IF ep = "legacySick" THEN "ephemeral" ELSE "in_channel"

ReplaceOriginal(ep) == IF ep = "sick" THEN Some(TRUE) ELSE NULL

FallbackText(ep) ==
    CASE ep = "emojify" -> <<":x::shrug: (Translation failed)">>
      [] ep = "farming" -> <<":tractor: The crops have failed. Try rotating your keyboard 90 degrees and planting again.">>
      [] OTHER          -> <<"Feeling under the weather but continuing to synergize strategically pending AI recovery.">>

\* response.content.map(c => 'text' in c ? c.text : '').join('').trim()
RECURSIVE JoinText(_)
JoinText(content) ==
    IF content = << >> THEN << >>
    ELSE (IF Head(content).type = "text" THEN Head(content).text ELSE << >>)
         \o JoinText(Tail(content))

GenText(content) == Trim(JoinText(content))

\* formattedText of emojify and farming; the sick routes post the text as is
FormatResult(ep, userInput, text) ==
    CASE ep = "emojify" ->
            IF userInput # EmptyStr
            THEN <<":speech_balloon: _\"">> \o userInput \o <<"\"_", "\n", "\n">> \o text
            ELSE text
      [] ep = "farming" ->
            IF userInput # EmptyStr
            THEN <<":tractor: *Farming Advice: ">> \o userInput \o <<"*", "\n", "\n">> \o text
            ELSE <<":tractor: ">> \o text
      [] OTHER -> text

\* variant: the callback POST appends the generation-API credential to its text
PayloadWithCredential(ep, text) ==
    [response_type |-> ResponseType(ep), replace_original |-> ReplaceOriginal(ep),
     text |-> text \o Val(env.CLAUDE_API_KEY)]

\* JSON body of a callback POST
Payload(ep, text) ==
    [response_type |-> ResponseType(ep), replace_original |-> ReplaceOriginal(ep),
     text |-> text]

\* (params.get('text') ?? '').trim()
UserInput(rawBody) == Trim(Coalesce(Get(rawBody, "text"), EmptyStr))

ResponseUrl(rawBody) == Get(rawBody, "response_url")

----------------------------------------------------------------------------
(* Inputs *)

MaxBlocks == 2

SlackSecret == <<"s1">>

Envs ==
    [SLACK_SIGNING_SECRET : {NULL, Some(EmptyStr), Some(SlackSecret)},
     CLAUDE_API_KEY       : {NULL, Some(EmptyStr), Some(<<"k1">>)},
     NODE_ENV             : {Some(<<"production">>), Some(<<"development">>)}]

Clock == {100000}

CallbackUrl == <<"https://hooks.slack.test/commands/1">>

HandshakeBodies ==
    { <<<<"type", <<"url_verification">>>>>> \o c \o u :
        c \in { << >>, <<<<"challenge", <<"abc123">>>>>> },
        u \in { << >>, <<<<"response_url", CallbackUrl>>>> } }

CommandBodies ==
    { u \o t :
        u \in { << >>, <<<<"response_url", EmptyStr>>>>,
                <<<<"response_url", CallbackUrl>>>> },
        t \in { << >>, <<<<"text", <<" ">>>>>>,
                <<<<"text", <<" ", "hi", " ">>>>>> } }

Bodies == HandshakeBodies \cup CommandBodies

Timestamps(now) ==
    {NULL, Some(EmptyTs), Some(TxtStr("soon")), Some(NumStr(now)),
     Some(NumStr(now - fiveMinutes)), Some(NumStr(now - fiveMinutes - 1)),
     Some(NumStr(now + fiveMinutes)), Some(NumStr(now + fiveMinutes + 1))}

\* what a sender can put in x-slack-signature: nothing, "", the token Slack
\* computes, a token computed with another key, a string of another length
Signatures(ts, rawBody) ==
    {NULL, Some(EmptySig),
     Some(ExpectedToken(SlackSecret, Coalesce(ts, EmptyTs), rawBody)),
     Some(ExpectedToken(<<"forged">>, Coalesce(ts, EmptyTs), rawBody)),
     Some([len |-> 3, prefix |-> "v0=", mac |-> << >>])}

Requests ==
    UNION { UNION { { [sig |-> sg, ts |-> ts, rawBody |-> b, now |-> now] :
                        sg \in Signatures(ts, b) } :
                    ts \in Timestamps(now), b \in Bodies } :
            now \in Clock }

NoRequest == [sig |-> NULL, ts |-> NULL, rawBody |-> << >>, now |-> 0]

Blocks == { [type |-> "text", text |-> <<" ", "ok">>],
            [type |-> "tool_use", text |-> << >>] }

\* response.content of a resolved generation call: 1..MaxBlocks blocks
Contents == UNION { [1..n -> Blocks] : n \in 1..MaxBlocks }

----------------------------------------------------------------------------
(* State machine *)

Upd(f, r, v) == [f EXCEPT ![r] = v]

NoCall == [result |-> "none"]

RequestsInit(RS) ==
    /\ pc = [r \in RS |-> "idle"]
    /\ endpoint = [r \in RS |-> "none"]
    /\ req = [r \in RS |-> NoRequest]
    /\ bodyRead = [r \in RS |-> FALSE]
    /\ response = [r \in RS |-> NULL]
    /\ tpc = [r \in RS |-> "none"]
    /\ api = [r \in RS |-> "none"]
    /\ genContent = [r \in RS |-> NULL]
    /\ timer = [r \in RS |-> "none"]
    /\ elapsed = [r \in RS |-> "no"]
    /\ posts = [r \in RS |-> << >>]
    /\ fetched = [r \in RS |-> << >>]
    /\ logs = [r \in RS |-> {}]
    /\ hist = [r \in RS |-> << >>]

InitFor(RS) ==
    /\ env \in Envs
    /\ call = NoCall
    /\ RequestsInit(RS)

Init == InitFor({1})

taskVars == <<tpc, api, genContent, timer, elapsed, posts, fetched, logs>>

\* POST up to `await req.text()`: the configuration check
POST_Enter(r, ep, rq) ==
    /\ pc[r] = "idle"
    /\ endpoint' = Upd(endpoint, r, ep)
    /\ req' = Upd(req, r, rq)
    /\ IF ConfigMissing(env)
       THEN /\ response' = Upd(response, r, Some(MissingEnvVars))
            /\ pc' = Upd(pc, r, "returned")
            /\ UNCHANGED bodyRead
       ELSE /\ bodyRead' = Upd(bodyRead, r, TRUE)
            /\ pc' = Upd(pc, r, "awaitBody")
            /\ UNCHANGED response
    /\ UNCHANGED <<call, env, hist>>
    /\ UNCHANGED taskVars

\* POST from the resolution of req.text() to its return: handshake, signature,
\* ack, and the registration (or, in legacySick, the start) of the task
POST_Validate(r) ==
    /\ pc[r] = "awaitBody"
    /\ pc' = Upd(pc, r, "returned")
    /\ LET ep == endpoint[r]
           validation == ValidateBody(env, req[r])
           responseUrl == ResponseUrl(req[r].rawBody)
           ack == createAckResponse(AckText(ep), ResponseType(ep))
       IN  /\ response' = Upd(response, r,
                              IF validation.error # NULL THEN validation.error
                              ELSE Some(ack))
           /\ IF ~ShouldDefer(validation, responseUrl)
              THEN /\ hist' = Upd(hist, r, IF validation.error # NULL THEN << >>
                                           ELSE <<"ack">>)
                   /\ UNCHANGED <<tpc, api>>
              ELSE IF UsesAfter(ep)
              THEN /\ tpc' = Upd(tpc, r, "registered")
                   /\ hist' = Upd(hist, r, <<"ack">>)
                   /\ UNCHANGED api
              ELSE /\ tpc' = Upd(tpc, r, "awaitGen")
                   /\ api' = Upd(api, r, "pending")
                   /\ hist' = Upd(hist, r, <<"gen", "ack">>)
    /\ UNCHANGED <<call, env, endpoint, req, bodyRead, genContent, timer, elapsed,
                   posts, fetched, logs>>

\* variant: responseUrl is kept in module scope, shared by the invocations, so
\* a task posts to the URL of the first request whose body was read
FetchSharedUrl(r, text) ==
    LET first == CHOOSE q \in DOMAIN pc :
                     /\ bodyRead[q]
                     /\ \A o \in DOMAIN pc : bodyRead[o] => q <= o
    IN  Append(posts[r], [url |-> Val(ResponseUrl(req[first].rawBody)),
                          body |-> Payload(endpoint[r], text)])

\* fetch(responseUrl, {method: 'POST', body: JSON.stringify(...)})
Fetch(r, text) ==
    Append(posts[r], [url |-> Val(ResponseUrl(req[r].rawBody)),
                      body |-> Payload(endpoint[r], text)])

\* the catch (err) block of the task: log, then the fallback POST
Catch(r, logged) ==
    /\ logs' = Upd(logs, r, logs[r] \cup logged \cup {"Claude error:"})
    /\ posts' = Upd(posts, r, Fetch(r, FallbackText(endpoint[r])))
    /\ tpc' = Upd(tpc, r, "awaitFallbackFetch")

\* variant: the success path posts the generation text without formatting it
DeliverUnformatted(r, content) ==
    /\ posts' = Upd(posts, r, Fetch(r, GenText(content)))
    /\ tpc' = Upd(tpc, r, "awaitFetch")
    /\ UNCHANGED logs

\* the success path after the await of the generation result
Deliver(r, content) ==
    /\ posts' = Upd(posts, r,
                    Fetch(r, FormatResult(endpoint[r],
                                          UserInput(req[r].rawBody),
                                          GenText(content))))
    /\ tpc' = Upd(tpc, r, "awaitFetch")
    /\ UNCHANGED logs

\* variant: the race is not awaited, so reading response.content throws at
\* once and the catch posts the fallback while the call is still pending
StartTaskNoAwait(r) ==
    /\ tpc[r] = "registered"
    /\ pc[r] = "returned"
    /\ api' = Upd(api, r, "pending")
    /\ timer' = Upd(timer, r, IF HasTimer(endpoint[r]) THEN "armed" ELSE "none")
    /\ hist' = Upd(hist, r, Append(hist[r], "gen"))
    /\ Catch(r, {})
    /\ UNCHANGED <<call, env, pc, endpoint, req, bodyRead, response, genContent,
                   elapsed, fetched>>

\* the after() callback starts once the response has been sent: it calls
\* anthropic.messages.create, arms the timer and awaits the race
StartTask(r) ==
    /\ tpc[r] = "registered"
    /\ pc[r] = "returned"
    /\ api' = Upd(api, r, "pending")
    /\ timer' = Upd(timer, r, IF HasTimer(endpoint[r]) THEN "armed" ELSE "none")
    /\ tpc' = Upd(tpc, r, "awaitGen")
    /\ hist' = Upd(hist, r, Append(hist[r], "gen"))
    /\ UNCHANGED <<call, env, pc, endpoint, req, bodyRead, response, genContent,
                   elapsed, posts, fetched, logs>>

\* variant: a result that arrives after the race was lost is delivered too
ApiResolveLateDelivery(r, content) ==
    /\ api[r] = "pending"
    /\ api' = Upd(api, r, "resolved")
    /\ genContent' = Upd(genContent, r, Some(content))
    /\ Deliver(r, content)
    /\ UNCHANGED <<call, env, pc, endpoint, req, bodyRead, response, timer,
                   elapsed, fetched, hist>>

\* the generation call resolves; a task still awaiting it goes on to deliver
ApiResolve(r, content) ==
    /\ api[r] = "pending"
    /\ api' = Upd(api, r, "resolved")
    /\ genContent' = Upd(genContent, r, Some(content))
    /\ IF tpc[r] = "awaitGen"
       THEN Deliver(r, content)
       ELSE UNCHANGED <<tpc, posts, logs>>
    /\ UNCHANGED <<call, env, pc, endpoint, req, bodyRead, response, timer, elapsed,
                   fetched, hist>>

\* the generation call rejects; a task still awaiting it enters its catch
ApiReject(r) ==
    /\ api[r] = "pending"
    /\ api' = Upd(api, r, "rejected")
    /\ IF tpc[r] = "awaitGen"
       THEN Catch(r, {})
       ELSE UNCHANGED <<tpc, posts, logs>>
    /\ UNCHANGED <<call, env, pc, endpoint, req, bodyRead, response, genContent,
                   timer, elapsed, fetched, hist>>

\* variant: the timer's rejection is handled wherever the task is, not only
\* at the race: it enters the catch and posts the fallback
Elapse45sUnguarded(r) ==
    /\ api[r] # "none"
    /\ elapsed[r] = "no"
    /\ elapsed' = Upd(elapsed, r, IF api[r] = "pending" THEN "genPending"
                                  ELSE "genSettled")
    /\ IF timer[r] = "armed"
       THEN /\ timer' = Upd(timer, r, "fired")
            /\ Catch(r, {})
       ELSE UNCHANGED <<timer, tpc, posts, logs>>
    /\ UNCHANGED <<call, env, pc, endpoint, req, bodyRead, response, api, genContent,
                   fetched, hist>>

\* 45 s have passed since the generation call was made; an armed timer runs
\* its callback, which rejects timeoutPromise
Elapse45s(r) ==
    /\ api[r] # "none"
    /\ elapsed[r] = "no"
    /\ elapsed' = Upd(elapsed, r, IF api[r] = "pending" THEN "genPending"
                                  ELSE "genSettled")
    /\ IF timer[r] = "armed"
       THEN /\ timer' = Upd(timer, r, "fired")
            /\ IF tpc[r] = "awaitGen"
               THEN Catch(r, {})
               ELSE UNCHANGED <<tpc, posts, logs>>
       ELSE UNCHANGED <<timer, tpc, posts, logs>>
    /\ UNCHANGED <<call, env, pc, endpoint, req, bodyRead, response, api, genContent,
                   fetched, hist>>

\* variant: every route falls back after a failed success POST
SuccessPostFailedAllCatch(r) ==
    Catch(r, {"Failed to send response to Slack:"})

\* a failure of the success POST (fetch rejected, or reading its body did)
SuccessPostFailed(r) ==
    IF UsesUtils(endpoint[r])
    THEN Catch(r, {"Failed to send response to Slack:"})
    ELSE /\ logs' = Upd(logs, r, logs[r] \cup {"Failed to send response to Slack:"})
         /\ tpc' = Upd(tpc, r, "done")
         /\ UNCHANGED posts

\* variant: the fallback POST is not wrapped in its own try/catch, so its
\* failure leaves the task as an unhandled rejection
FallbackPostFailedRethrow(r) ==
    /\ logs' = Upd(logs, r,
                   logs[r] \cup (IF UsesUtils(endpoint[r])
                                 THEN {"Failed to send response to Slack:"}
                                 ELSE {}))
    /\ tpc' = Upd(tpc, r, "threw")
    /\ UNCHANGED posts

\* a failure of the fallback POST: logged, the task completes
FallbackPostFailed(r) ==
    /\ logs' = Upd(logs, r,
                   logs[r] \cup {"Failed to send error response to Slack:"}
                           \cup (IF UsesUtils(endpoint[r])
                                 THEN {"Failed to send response to Slack:"}
                                 ELSE {}))
    /\ tpc' = Upd(tpc, r, "done")
    /\ UNCHANGED posts

\* the pending fetch resolves with a response
FetchResolve(r) ==
    /\ tpc[r] \in {"awaitFetch", "awaitFallbackFetch"}
    /\ tpc' = Upd(tpc, r,
                  IF tpc[r] = "awaitFetch" THEN "awaitText"
                  ELSE IF UsesUtils(endpoint[r]) THEN "awaitFallbackText"
                  ELSE "done")
    /\ fetched' = Upd(fetched, r, Append(fetched[r], "resolved"))
    /\ UNCHANGED <<call, env, pc, endpoint, req, bodyRead, response, api, genContent,
                   timer, elapsed, posts, logs, hist>>

\* variant: a rejected fetch is issued again (retry loop)
FetchRejectRetry(r) ==
    /\ tpc[r] \in {"awaitFetch", "awaitFallbackFetch"}
    /\ posts' = Upd(posts, r, Append(posts[r], posts[r][Len(posts[r])]))
    /\ fetched' = Upd(fetched, r, Append(fetched[r], "rejected"))
    /\ UNCHANGED <<call, env, pc, endpoint, req, bodyRead, response, tpc, api,
                   genContent, timer, elapsed, logs, hist>>

\* the pending fetch rejects (network error)
FetchReject(r) ==
    /\ tpc[r] \in {"awaitFetch", "awaitFallbackFetch"}
    /\ IF tpc[r] = "awaitFetch" THEN SuccessPostFailed(r)
       ELSE FallbackPostFailed(r)
    /\ fetched' = Upd(fetched, r, Append(fetched[r], "rejected"))
    /\ UNCHANGED <<call, env, pc, endpoint, req, bodyRead, response, api, genContent,
                   timer, elapsed, hist>>

\* slackResponse.text() resolves
TextResolve(r) ==
    /\ tpc[r] \in {"awaitText", "awaitFallbackText"}
    /\ tpc' = Upd(tpc, r, "done")
    /\ UNCHANGED <<call, env, pc, endpoint, req, bodyRead, response, api, genContent,
                   timer, elapsed, posts, fetched, logs, hist>>

\* slackResponse.text() rejects
TextReject(r) ==
    /\ tpc[r] \in {"awaitText", "awaitFallbackText"}
    /\ IF tpc[r] = "awaitText" THEN SuccessPostFailed(r)
       ELSE FallbackPostFailed(r)
    /\ UNCHANGED <<call, env, pc, endpoint, req, bodyRead, response, api, genContent,
                   timer, elapsed, fetched, hist>>

Next ==
    \/ \E r \in DOMAIN pc :
          /\ pc[r] = "idle"
          /\ \E ep \in Endpoints, rq \in Requests : POST_Enter(r, ep, rq)
    \/ \E r \in DOMAIN pc : POST_Validate(r)
    \/ \E r \in DOMAIN pc : StartTask(r)
    \/ \E r \in DOMAIN pc :
          /\ api[r] = "pending"
          /\ \E content \in Contents : ApiResolve(r, content)
    \/ \E r \in DOMAIN pc : ApiReject(r)
    \/ \E r \in DOMAIN pc : Elapse45s(r)
    \/ \E r \in DOMAIN pc : FetchResolve(r)
    \/ \E r \in DOMAIN pc : FetchReject(r)
    \/ \E r \in DOMAIN pc : TextResolve(r)
    \/ \E r \in DOMAIN pc : TextReject(r)

Spec == Init /\ [][Next]_vars

----------------------------------------------------------------------------
(* Vocabulary of the properties *)

RS == DOMAIN pc

Returned(r) == pc[r] = "returned"

\* the handler answered with the JSON acknowledgment
Acked(r) == Returned(r) /\ response[r] # NULL /\ Val(response[r]).json

\* the handler answered with a rejection: 500, 401 or the plain-text handshake
Rejected(r) == Returned(r) /\ response[r] # NULL /\ ~Val(response[r]).json

HasResponseUrl(r) ==
    /\ Get(req[r].rawBody, "response_url") # NULL
    /\ Val(Get(req[r].rawBody, "response_url")) # EmptyStr

TaskDone(r) == tpc[r] = "done"

\* the POST the success path sends for the content the call resolved with
SuccessPost(r) ==
    [url |-> Val(Get(req[r].rawBody, "response_url")),
     body |-> Payload(endpoint[r],
                      FormatResult(endpoint[r], UserInput(req[r].rawBody),
                                   GenText(Val(genContent[r]))))]

\* the POST of the fallback path: preset text, response type of the endpoint
FallbackPost(r) ==
    [url |-> Val(Get(req[r].rawBody, "response_url")),
     body |-> [response_type |-> ResponseType(endpoint[r]),
               replace_original |-> ReplaceOriginal(endpoint[r]),
               text |-> FallbackText(endpoint[r])]]

\* the success POST was sent and failed (fetch rejected or body read failed)
SuccessPostFailure(r) ==
    /\ posts[r] # << >>
    /\ genContent[r] # NULL
    /\ posts[r][1] = SuccessPost(r)
    /\ "Failed to send response to Slack:" \in logs[r]

\* the generation call resolved and 45 s had not elapsed before it did
ResolvedInTime(r) == api[r] = "resolved" /\ elapsed[r] # "genPending"

----------------------------------------------------------------------------
(* C1 *)

\* C1 as stated: a finished deferred task has issued exactly one POST to the
\* callback URL, whatever the outcome of the generation call and of the POST.
C1_ExactlyOnePost ==
    \A r \in RS : TaskDone(r) => Len(posts[r]) = 1

\* C1 amended: a finished deferred task has issued one POST (the success or
\* the fallback payload), or two when the success POST failed on a route that
\* delivers through sendSlackMessage: the success POST, then one fallback
\* POST.  Never zero, never more than two.
C1_OneOrTwoPosts ==
    \A r \in RS : TaskDone(r) =>
        /\ Len(posts[r]) \in {1, 2}
        /\ Len(posts[r]) = 1 =>
              \/ posts[r][1] = FallbackPost(r)
              \/ genContent[r] # NULL /\ posts[r][1] = SuccessPost(r)
        /\ Len(posts[r]) = 2 =>
              /\ UsesUtils(endpoint[r])
              /\ SuccessPostFailure(r)
              /\ posts[r][2] = FallbackPost(r)
        /\ (UsesUtils(endpoint[r]) /\ SuccessPostFailure(r)) => Len(posts[r]) = 2

C1_Witness ==
    \E r \in RS : /\ TaskDone(r)
                  /\ Len(posts[r]) = 2
                  /\ endpoint[r] = "emojify"

----------------------------------------------------------------------------
(* C2 *)

\* C2 as stated: when the generation call resolves before 45 s have elapsed,
\* the task issues exactly one POST, with the formatted generation text, and
\* no fallback POST, even when the success POST fails.
C2_OneSuccessPostOnly ==
    \A r \in RS : (ResolvedInTime(r) /\ TaskDone(r)) =>
        posts[r] = <<SuccessPost(r)>>

\* C2 amended: when the generation call resolves before 45 s have elapsed,
\* the task issues exactly one success POST, with the formatted generation
\* text, and it is the first POST; no fallback POST follows unless that POST
\* failed on a route delivering through sendSlackMessage (emojify, farming),
\* where exactly one fallback POST follows.
C2_SuccessPostFirst ==
    \A r \in RS : ResolvedInTime(r) =>
        /\ posts[r] # << >>
        /\ posts[r][1] = SuccessPost(r)
        /\ \/ Len(posts[r]) = 1
           \/ /\ posts[r] = <<SuccessPost(r), FallbackPost(r)>>
              /\ UsesUtils(endpoint[r])
              /\ SuccessPostFailure(r)
        /\ (TaskDone(r) /\ ~(UsesUtils(endpoint[r]) /\ SuccessPostFailure(r)))
              => posts[r] = <<SuccessPost(r)>>

C2_Witness ==
    \E r \in RS : /\ ResolvedInTime(r)
                  /\ TaskDone(r)
                  /\ SuccessPostFailure(r)
                  /\ endpoint[r] = "sick"
                  /\ UserInput(req[r].rawBody) # EmptyStr

----------------------------------------------------------------------------
(* C3 *)

\* C3: on every endpoint, when the generation call is still pending 45 s
\* after it was made, the finished task has issued exactly one POST and that
\* POST carries the fallback text of the endpoint.
C3_TimeoutFallbackOnly ==
    \A r \in RS : (elapsed[r] = "genPending" /\ TaskDone(r)) =>
        posts[r] = <<FallbackPost(r)>>

----------------------------------------------------------------------------
(* C4 *)

\* C4: on every endpoint, once the success path has failed (generation
\* rejected, timer first, or failed success POST), a fallback POST with the
\* preset text and the response type of the endpoint has been issued.
C4_FallbackAfterAnyFailure ==
    \A r \in RS :
        ("Claude error:" \in logs[r] \/ SuccessPostFailure(r)) =>
            \E i \in 1..Len(posts[r]) : posts[r][i] = FallbackPost(r)

----------------------------------------------------------------------------
(* C5 *)

\* C5: a request acknowledged with the 200 ack whose body has no response_url,
\* or an empty one, gets the ack of its endpoint and nothing else: no task is
\* registered, the generation call is never made, no callback POST is issued.
C5_NoUrlNoDeferredWork ==
    \A r \in RS : (Acked(r) /\ ~HasResponseUrl(r)) =>
        /\ Val(response[r]).status = 200
        /\ Val(response[r]).text = AckText(endpoint[r])
        /\ tpc[r] = "none"
        /\ api[r] = "none"
        /\ timer[r] = "none"
        /\ posts[r] = << >>
        /\ hist[r] = <<"ack">>

C5_Witness ==
    \E r \in RS : /\ Acked(r)
                  /\ Get(req[r].rawBody, "response_url") = Some(EmptyStr)

----------------------------------------------------------------------------
(* C6 *)

\* C6: a request answered with 500, with the handshake 200 or with 401 never
\* gets a deferred task: no generation call, no callback POST, even when its
\* body carries a response_url.
C6_RejectionsTerminal ==
    \A r \in RS : Rejected(r) =>
        /\ Val(response[r]).status \in {500, 200, 401}
        /\ tpc[r] = "none"
        /\ api[r] = "none"
        /\ timer[r] = "none"
        /\ posts[r] = << >>
        /\ hist[r] = << >>

C6_Witness ==
    \E r \in RS : /\ Rejected(r)
                  /\ Val(response[r]).status = 401
                  /\ HasResponseUrl(r)

----------------------------------------------------------------------------
(* C7 - C10: admission *)

\* the body is a handshake: type is url_verification and a challenge is given
Handshake(r) ==
    /\ Get(req[r].rawBody, "type") = Some(<<"url_verification">>)
    /\ Get(req[r].rawBody, "challenge") # NULL

ChallengeEchoed(r) ==
    /\ response[r] # NULL
    /\ Val(response[r]).status = 200
    /\ ~Val(response[r]).json
    /\ Val(response[r]).text = Val(Get(req[r].rawBody, "challenge"))

SecretsConfigured ==
    /\ env.SLACK_SIGNING_SECRET \notin {NULL, Some(EmptyStr)}
    /\ env.CLAUDE_API_KEY \notin {NULL, Some(EmptyStr)}

Production == env.NODE_ENV = Some(<<"production">>)

\* the cases in which the verifier answers false: a header absent (or empty),
\* a timestamp more than 300 s from now, a signature that is not the token
\* computed from the secret, the timestamp and the raw body
SignatureBad(r) ==
    \/ req[r].sig \in {NULL, Some(EmptySig)}
    \/ req[r].ts \in {NULL, Some(EmptyTs)}
    \/ /\ Val(req[r].ts).num
       /\ \/ req[r].now - Val(req[r].ts).n > 300
          \/ Val(req[r].ts).n - req[r].now > 300
    \/ Val(req[r].sig) # [len |-> 67, prefix |-> "v0=",
                          mac |-> <<Val(env.SLACK_SIGNING_SECRET),
                                    <<"v0", Val(req[r].ts), req[r].rawBody>>>>]

\* C7 as stated: a handshake request is always answered with 200 and the
\* challenge as body, whatever the signature headers and the configuration.
C7_HandshakeAlwaysEchoed ==
    \A r \in RS : (Returned(r) /\ Handshake(r)) => ChallengeEchoed(r)

\* C7 amended: when both secrets are configured, a handshake request is
\* answered with 200 and the challenge as body, whatever the signature
\* headers and in production as in non-production mode: the handshake check
\* precedes the signature check (and the configuration check precedes both).
C7_HandshakeEchoedWhenConfigured ==
    \A r \in RS : (pc[r] # "idle" /\ Handshake(r)) =>
        /\ (Returned(r) /\ SecretsConfigured) => ChallengeEchoed(r)
        /\ (Returned(r) /\ ~SecretsConfigured) => response[r] = Some(MissingEnvVars)

C7_Witness ==
    \E r \in RS : /\ Returned(r)
                  /\ Handshake(r)
                  /\ Production
                  /\ SecretsConfigured
                  /\ ChallengeEchoed(r)
                  /\ SignatureBad(r)

\* C8: in production with both secrets configured, a non-handshake request
\* whose signature check fails (header absent, timestamp more than 300 s off,
\* signature mismatched) is answered with 401; it is acknowledged only when
\* the verifier accepts it.
C8_ProductionRejectsBadSignature ==
    \A r \in RS :
        (Returned(r) /\ SecretsConfigured /\ Production
            /\ Get(req[r].rawBody, "type") # Some(<<"url_verification">>)) =>
        /\ SignatureBad(r) => (response[r] = Some(BadSignature) /\ ~Acked(r))
        /\ Acked(r) <=> ~SignatureBad(r)
        /\ Acked(r) <=> verifySlackSignature(Val(env.SLACK_SIGNING_SECRET),
                                             req[r].ts, req[r].sig,
                                             req[r].rawBody, req[r].now)

C8_Witness ==
    \E r \in RS : /\ Returned(r) /\ SecretsConfigured /\ Production
                  /\ req[r].ts = Some(NumStr(req[r].now - 301))
                  /\ req[r].sig = Some(ExpectedToken(SlackSecret, Val(req[r].ts),
                                                     req[r].rawBody))
                  /\ response[r] = Some(BadSignature)

\* C9: outside production with both secrets configured, every non-handshake
\* request is acknowledged with 200 whatever its signature and timestamp
\* headers are.
C9_NonProductionSkipsSignature ==
    \A r \in RS :
        (Returned(r) /\ SecretsConfigured /\ ~Production
            /\ Get(req[r].rawBody, "type") # Some(<<"url_verification">>)) =>
        /\ Acked(r)
        /\ response[r] = Some([status |-> 200, json |-> TRUE,
                               response_type |-> Some(ResponseType(endpoint[r])),
                               text |-> AckText(endpoint[r])])

C9_Witness ==
    \E r \in RS : /\ Acked(r) /\ ~Production
                  /\ SecretsConfigured
                  /\ SignatureBad(r)
                  /\ req[r].sig = NULL

\* C10: when either secret is absent the request is answered with 500 and
\* req.text() is never called; no later admission step is reached.
C10_ConfigErrorBeforeBodyRead ==
    \A r \in RS :
        /\ (pc[r] # "idle" /\ ~SecretsConfigured) =>
              /\ Returned(r)
              /\ response[r] = Some(MissingEnvVars)
              /\ ~bodyRead[r]
        /\ (response[r] # NULL /\ Val(response[r]).status = 500) => ~bodyRead[r]

C10_Witness ==
    \E r \in RS : /\ Returned(r)
                  /\ env.SLACK_SIGNING_SECRET = Some(SlackSecret)
                  /\ env.CLAUDE_API_KEY = NULL
                  /\ response[r] = Some(MissingEnvVars)
                  /\ ~bodyRead[r]

----------------------------------------------------------------------------
(* The signature verifier called directly: C11 - C13 *)

VerifySecrets == {EmptyStr, SlackSecret, <<"s2">>}

SignatureKinds == {"null", "empty", "correct", "forged", "short"}

SignatureOfKind(k, secret, ts, rawBody) ==
    CASE k = "null"    -> NULL
      [] k = "empty"   -> Some(EmptySig)
      [] k = "correct" -> Some(ExpectedToken(secret, Coalesce(ts, EmptyTs), rawBody))
      [] k = "forged"  -> Some(ExpectedToken(<<"forged">>, Coalesce(ts, EmptyTs), rawBody))
      [] OTHER         -> Some([len |-> 3, prefix |-> "v0=", mac |-> << >>])

\* a run of characters with one byte changed
FlipToken(t) == IF t = "#" THEN "%" ELSE "#"

\* the raw bodies that differ from b in one byte: in a key or in a value
BodyFlips(b) ==
    { [b EXCEPT ![i] = <<FlipToken(b[i][1]), b[i][2]>>] : i \in 1..Len(b) }
    \cup UNION { { [b EXCEPT ![i] = <<b[i][1], [b[i][2] EXCEPT ![j] = FlipToken(@)]>>] :
                     j \in 1..Len(b[i][2]) } : i \in 1..Len(b) }

\* the timestamps that differ from ts in one byte: another number near or
\* far, another spelling of the same number, text that is no number
TimestampFlips(ts) ==
    IF ts.num
    THEN {NumStr(ts.n + 1), NumStr(ts.n - 1), NumStr(ts.n + 900000),
          [num |-> TRUE, n |-> ts.n, txt |-> "other spelling"],
          TxtStr("digits and a letter")}
    ELSE IF ts.txt = "" THEN {}
    ELSE {TxtStr("other text")}

\* the signatures that differ from sg in one byte: in the prefix or the digest
SignatureFlips(sg) ==
    IF sg.len = 0 THEN {}
    ELSE {[sg EXCEPT !.prefix = "v1="]}
         \cup (IF sg.mac = << >> THEN {}
               ELSE {[sg EXCEPT !.mac = <<sg.mac[1] \o <<"#">>, sg.mac[2]>>]})

InWindow(now, ts) ==
    ts # NULL /\ Val(ts).num /\ Val(ts).n >= now - 300 /\ Val(ts).n <= now + 300

Calls ==
    UNION { { [signingSecret |-> sec, timestamp |-> ts,
               signature |-> SignatureOfKind(k, sec, ts, b), rawBody |-> b,
               now |-> now, kind |-> k, fresh |-> InWindow(now, ts),
               edit |-> "none", result |-> "none"] :
                sec \in VerifySecrets, ts \in Timestamps(now), b \in Bodies,
                k \in SignatureKinds } : now \in Clock }

VerifyInit ==
    /\ call \in Calls
    /\ env = [SLACK_SIGNING_SECRET |-> NULL, CLAUDE_API_KEY |-> NULL,
              NODE_ENV |-> NULL]
    /\ RequestsInit({})

requestVars == <<env, pc, endpoint, req, bodyRead, response, tpc, api, genContent,
                 timer, elapsed, posts, fetched, logs, hist>>

Untouched == call.result = "none" /\ call.edit = "none"

\* one byte of the raw body is changed before the call
FlipRawBody ==
    /\ Untouched
    /\ \E b \in BodyFlips(call.rawBody) :
          call' = [call EXCEPT !.rawBody = b, !.edit = "rawBody"]
    /\ UNCHANGED requestVars

\* one byte of the timestamp is changed before the call
FlipTimestamp ==
    /\ Untouched
    /\ call.timestamp # NULL
    /\ \E t \in TimestampFlips(Val(call.timestamp)) :
          call' = [call EXCEPT !.timestamp = Some(t), !.edit = "timestamp"]
    /\ UNCHANGED requestVars

\* one byte of the signature is changed before the call
FlipSignature ==
    /\ Untouched
    /\ call.signature # NULL
    /\ \E sg \in SignatureFlips(Val(call.signature)) :
          call' = [call EXCEPT !.signature = Some(sg), !.edit = "signature"]
    /\ UNCHANGED requestVars

\* verifySlackSignature({signingSecret, timestamp, signature, rawBody})
CallVerify ==
    /\ call.result = "none"
    /\ LET out == verifyOutcome(call.signingSecret, call.timestamp,
                                call.signature, call.rawBody, call.now)
       IN  call' = [call EXCEPT !.result =
                        IF out.threw THEN "threw"
                        ELSE IF out.value THEN "true" ELSE "false"]
    /\ UNCHANGED requestVars

VerifyNext == FlipRawBody \/ FlipTimestamp \/ FlipSignature \/ CallVerify

VerifySpec == VerifyInit /\ [][VerifyNext]_vars

\* C11: with the signature computed as v0= and the keyed hash of
\* v0:timestamp:rawBody, for a timestamp within the replay window, verify
\* returns true; after a change of one byte of the raw body, of the timestamp
\* or of the signature it returns false.
C11_CorrectSignatureOnly ==
    (call.result # "none" /\ call.kind = "correct" /\ call.fresh) =>
        /\ call.edit = "none" => call.result = "true"
        /\ call.edit # "none" => call.result = "false"

C11_Witness ==
    /\ call.kind = "correct"
    /\ call.fresh
    /\ call.edit = "timestamp"
    /\ call.timestamp = Some([num |-> TRUE, n |-> call.now, txt |-> "other spelling"])
    /\ call.result = "false"

\* C12: for a timestamp more than 300 s before or after now, verify returns
\* false, also with the signature computed for that timestamp and body.
C12_StaleTimestampRejected ==
    (call.result # "none" /\ call.timestamp # NULL /\ Val(call.timestamp).num
        /\ \/ call.now - Val(call.timestamp).n > 300
           \/ Val(call.timestamp).n - call.now > 300) =>
        call.result = "false"

C12_Witness ==
    /\ call.kind = "correct"
    /\ call.edit = "none"
    /\ call.timestamp = Some(NumStr(call.now + 301))
    /\ call.result = "false"

\* C13: verify never raises; with the timestamp or the signature absent (null
\* or empty) it returns false, and with a signature whose length differs from
\* the expected token, where the comparison throws, it returns false as well.
C13_VerifyNeverRaises ==
    call.result # "none" =>
        /\ call.result \in {"true", "false"}
        /\ (call.timestamp \in {NULL, Some(EmptyTs)}
            \/ call.signature \in {NULL, Some(EmptySig)}) => call.result = "false"
        /\ (call.signature # NULL /\ Val(call.signature).len # 67)
              => call.result = "false"

C13_Witness ==
    /\ call.kind = "short"
    /\ call.fresh
    /\ call.edit = "none"
    /\ call.result = "false"

----------------------------------------------------------------------------
(* C14 - C18: the deferred task *)

\* the race between the generation call and the timer is decided
RaceDecided(r) == api[r] \in {"resolved", "rejected"} \/ timer[r] = "fired"

\* C14: every callback POST is issued after the generation attempt resolved,
\* rejected or timed out: while the task awaits the race no POST has been
\* issued, and no fetch settles that was not issued.
C14_PostAfterGeneration ==
    \A r \in RS :
        /\ posts[r] # << >> => RaceDecided(r)
        /\ tpc[r] \in {"none", "registered", "awaitGen"} => posts[r] = << >>
        /\ Len(fetched[r]) <= Len(posts[r])

C14_Witness ==
    \E r \in RS : /\ api[r] = "pending"
                  /\ timer[r] = "fired"
                  /\ tpc[r] = "awaitFallbackFetch"
                  /\ Len(posts[r]) = 1

\* C15: on every endpoint the generation collaborator is called only after
\* the handler has returned the ack.
C15_AckBeforeGeneration ==
    \A r \in RS :
        /\ (api[r] # "none" \/ posts[r] # << >>) =>
              (Acked(r) /\ hist[r] = <<"ack", "gen">>)
        /\ pc[r] # "returned" => api[r] = "none"

\* the timer fired while the generation call was pending
TimerWon(r) == timer[r] = "fired" /\ elapsed[r] = "genPending"

\* C16: when the timer wins the race the fallback path proceeds, and a later
\* resolution or rejection of the abandoned call changes nothing: the only
\* POST is the fallback POST, the generation text is never delivered.
C16_AbandonedCallHasNoEffect ==
    \A r \in RS : TimerWon(r) =>
        /\ posts[r] = <<FallbackPost(r)>>
        /\ tpc[r] \in {"awaitFallbackFetch", "awaitFallbackText", "done"}
        /\ genContent[r] # NULL =>
              \A i \in 1..Len(posts[r]) : posts[r][i] # SuccessPost(r)

C16_Witness ==
    \E r \in RS : /\ TimerWon(r)
                  /\ api[r] = "resolved"
                  /\ GenText(Val(genContent[r])) # EmptyStr
                  /\ tpc[r] = "awaitFallbackFetch"

TaskPositions ==
    {"none", "registered", "awaitGen", "awaitFetch", "awaitText",
     "awaitFallbackFetch", "awaitFallbackText", "done"}

\* C17: the task never throws past its boundary; a failed fallback POST is
\* logged, not retried, and the task completes.
C17_TaskNeverThrows ==
    \A r \in RS :
        /\ tpc[r] \in TaskPositions
        /\ "Failed to send error response to Slack:" \in logs[r] =>
              /\ tpc[r] = "done"
              /\ posts[r][Len(posts[r])] = FallbackPost(r)
              /\ Cardinality({i \in 1..Len(posts[r]) :
                                 posts[r][i] = FallbackPost(r)}) = 1
              /\ Len(posts[r]) <= 2

C17_Witness ==
    \E r \in RS : /\ "Failed to send error response to Slack:" \in logs[r]
                  /\ tpc[r] = "done"
                  /\ Len(posts[r]) = 2
                  /\ fetched[r] = <<"resolved", "resolved">>

\* the timer callback, the after() callback, the resumption after req.text()
\* and the settling of an issued callback POST are scheduled fairly; the
\* generation call may never settle
LiveSpec ==
    /\ Init /\ [][Next]_vars
    /\ WF_vars(\E r \in DOMAIN pc : POST_Validate(r))
    /\ WF_vars(\E r \in DOMAIN pc : StartTask(r))
    /\ WF_vars(\E r \in DOMAIN pc : Elapse45s(r))
    /\ WF_vars(\E r \in DOMAIN pc : FetchResolve(r) \/ FetchReject(r))
    /\ WF_vars(\E r \in DOMAIN pc : TextResolve(r) \/ TextReject(r))

\* C18: on every endpoint a started task eventually completes, even when the
\* generation call never settles.
C18_TaskCompletes ==
    \A r \in {1} : (tpc[r] = "awaitGen") ~> (tpc[r] = "done")

----------------------------------------------------------------------------
(* C19: two requests in flight at once *)

\* the deployment serving both requests: production, both secrets set
ConcEnv ==
    [SLACK_SIGNING_SECRET |-> Some(SlackSecret),
     CLAUDE_API_KEY       |-> Some(<<"k1">>),
     NODE_ENV             |-> Some(<<"production">>)]

ConcUrl(r) ==
    IF r = 1 THEN CallbackUrl ELSE <<"https://hooks.slack.test/commands/2">>

ConcText(r) == IF r = 1 THEN <<" ", "hi", " ">> ELSE <<"yo">>

\* the slash command of request r, signed by Slack: its own callback URL and
\* its own user text
ConcRequest(r) ==
    LET b == <<<<"response_url", ConcUrl(r)>>, <<"text", ConcText(r)>>>>
        now == CHOOSE n \in Clock : TRUE
    IN  [sig |-> Some(ExpectedToken(SlackSecret, NumStr(now), b)),
         ts |-> Some(NumStr(now)), rawBody |-> b, now |-> now]

\* the results the two generation calls can resolve with: one block, with or
\* without text, so that the two requests can get different results
ConcContents == {content \in Contents : Len(content) = 1}

ConcInit ==
    /\ env = ConcEnv
    /\ call = NoCall
    /\ RequestsInit({1, 2})

\* the handler and the task of the two invocations, interleaved at every
\* await point
ConcNext ==
    \/ \E r \in DOMAIN pc :
          /\ pc[r] = "idle"
          /\ \E ep \in Endpoints : POST_Enter(r, ep, ConcRequest(r))
    \/ \E r \in DOMAIN pc : POST_Validate(r)
    \/ \E r \in DOMAIN pc : StartTask(r)
    \/ \E r \in DOMAIN pc :
          /\ api[r] = "pending"
          /\ \E content \in ConcContents : ApiResolve(r, content)
    \/ \E r \in DOMAIN pc : ApiReject(r)
    \/ \E r \in DOMAIN pc : Elapse45s(r)
    \/ \E r \in DOMAIN pc : FetchResolve(r)
    \/ \E r \in DOMAIN pc : FetchReject(r)
    \/ \E r \in DOMAIN pc : TextResolve(r)
    \/ \E r \in DOMAIN pc : TextReject(r)

ConcSpec == ConcInit /\ [][ConcNext]_vars

\* everything the program holds about request r
Slice(r) ==
    <<pc[r], endpoint[r], req[r], bodyRead[r], response[r], tpc[r], api[r],
      genContent[r], timer[r], elapsed[r], posts[r], fetched[r], logs[r],
      hist[r]>>

\* the POSTs request r may issue, from its own URL, text and generation result
OwnSuccessPost(r) ==
    [url |-> ConcUrl(r),
     body |-> [response_type |-> ResponseType(endpoint[r]),
               replace_original |-> ReplaceOriginal(endpoint[r]),
               text |-> FormatResult(endpoint[r], Trim(ConcText(r)),
                                     GenText(Val(genContent[r])))]]

OwnFallbackPost(r) ==
    [url |-> ConcUrl(r),
     body |-> [response_type |-> ResponseType(endpoint[r]),
               replace_original |-> ReplaceOriginal(endpoint[r]),
               text |-> FallbackText(endpoint[r])]]

PostKind(r, p) ==
    IF p = OwnFallbackPost(r) THEN "fallback"
    ELSE IF genContent[r] # NULL /\ p = OwnSuccessPost(r) THEN "success"
    ELSE "foreign"

\* number and kind of the POSTs of request r as its own generation and
\* delivery outcome determine them
OwnOutcomeKinds(r) ==
    IF tpc[r] \in {"none", "registered", "awaitGen"} THEN << >>
    ELSE IF api[r] = "resolved" /\ ~TimerWon(r)
    THEN IF /\ endpoint[r] \in {"emojify", "farming"}
            /\ "Failed to send response to Slack:" \in logs[r]
         THEN <<"success", "fallback">>
         ELSE <<"success">>
    ELSE <<"fallback">>

\* C19: two concurrent requests are isolated: each callback URL receives only
\* POSTs built from that request's own text and generation result, their
\* number and kind follow from that request's own outcome, and no step of
\* one request changes anything held about the other.
C19_RequestsIsolated ==
    /\ [](\A r \in RS :
            [i \in 1..Len(posts[r]) |-> PostKind(r, posts[r][i])]
                = OwnOutcomeKinds(r))
    /\ [][\A r \in RS, q \in RS :
             (r # q /\ Slice(r)' # Slice(r)) => Slice(q)' = Slice(q)]_vars

C19_Witness ==
    /\ tpc[1] = "awaitFetch" /\ posts[1] = <<OwnSuccessPost(1)>>
    /\ tpc[2] = "awaitFallbackFetch" /\ posts[2] = <<OwnFallbackPost(2)>>
    /\ endpoint[1] = endpoint[2]
    /\ api[2] = "resolved"
    /\ genContent[1] # genContent[2]

----------------------------------------------------------------------------
(* C20: runs that differ in the secrets *)

\* deployments that differ only in the two secret values
SecretEnvs ==
    [SLACK_SIGNING_SECRET : {Some(SlackSecret), Some(<<"s2">>)},
     CLAUDE_API_KEY       : {Some(<<"k1">>), Some(<<"k2">>)},
     NODE_ENV             : {Some(<<"production">>), Some(<<"development">>)}]

\* slash commands, unsigned or signed with either signing secret, with or
\* without a timestamp
SecretRequests ==
    UNION { UNION { { [sig |-> sg, ts |-> ts, rawBody |-> b, now |-> now] :
                        sg \in {NULL,
                                Some(ExpectedToken(SlackSecret,
                                                   Coalesce(ts, EmptyTs), b)),
                                Some(ExpectedToken(<<"s2">>,
                                                   Coalesce(ts, EmptyTs), b))} } :
                    ts \in {NULL, Some(NumStr(now))}, b \in CommandBodies } :
            now \in Clock }

SecretInit ==
    /\ env \in SecretEnvs
    /\ call = NoCall
    /\ RequestsInit({1})

SecretNext ==
    \/ \E r \in DOMAIN pc :
          /\ pc[r] = "idle"
          /\ \E ep \in Endpoints, rq \in SecretRequests : POST_Enter(r, ep, rq)
    \/ \E r \in DOMAIN pc : POST_Validate(r)
    \/ \E r \in DOMAIN pc : StartTask(r)
    \/ \E r \in DOMAIN pc :
          /\ api[r] = "pending"
          /\ \E content \in Contents : ApiResolve(r, content)
    \/ \E r \in DOMAIN pc : ApiReject(r)
    \/ \E r \in DOMAIN pc : Elapse45s(r)
    \/ \E r \in DOMAIN pc : FetchResolve(r)
    \/ \E r \in DOMAIN pc : FetchReject(r)
    \/ \E r \in DOMAIN pc : TextResolve(r)
    \/ \E r \in DOMAIN pc : TextReject(r)

SecretSpec == SecretInit /\ [][SecretNext]_vars

\* the tokens of the two secrets of the deployment
SecretTokens ==
    {Val(env.SLACK_SIGNING_SECRET)[i] :
        i \in 1..Len(Val(env.SLACK_SIGNING_SECRET))}
    \cup {Val(env.CLAUDE_API_KEY)[i] : i \in 1..Len(Val(env.CLAUDE_API_KEY))}

FreeOfSecrets(text) == \A i \in 1..Len(text) : text[i] \notin SecretTokens

\* the acknowledgment body as the endpoint alone determines it
PublicAck(ep) ==
    [status |-> 200, json |-> TRUE, response_type |-> Some(ResponseType(ep)),
     text |-> AckText(ep)]

\* the callback POST bodies as the endpoint, the user text and the generation
\* result alone determine them: no secret, signature or timestamp is an input
PublicBodies(ep, rawBody, content) ==
    {[response_type |-> ResponseType(ep),
      replace_original |-> ReplaceOriginal(ep),
      text |-> FallbackText(ep)]}
    \cup (IF content = NULL THEN {}
          ELSE {[response_type |-> ResponseType(ep),
                 replace_original |-> ReplaceOriginal(ep),
                 text |-> FormatResult(ep, UserInput(rawBody),
                                       GenText(Val(content)))]})

\* C20: the acknowledgment body and every callback POST body are determined
\* by the endpoint, the user text and the generation result alone, whatever
\* the signing secret, the credential, the signature and the timestamp are
\* (so two runs differing only in the secrets, with the same admission outcome
\* and generation result, produce identical bodies), and no body contains a
\* token of either secret.
C20_NoSecretInOutputs ==
    \A r \in RS :
        /\ Acked(r) =>
              /\ Val(response[r]) = PublicAck(endpoint[r])
              /\ FreeOfSecrets(Val(response[r]).text)
        /\ \A i \in 1..Len(posts[r]) :
              /\ posts[r][i].body \in
                    PublicBodies(endpoint[r], req[r].rawBody, genContent[r])
              /\ FreeOfSecrets(posts[r][i].body.text)

C20_Witness ==
    \E r \in RS :
        /\ env.SLACK_SIGNING_SECRET = Some(<<"s2">>)
        /\ env.CLAUDE_API_KEY = Some(<<"k2">>)
        /\ env.NODE_ENV = Some(<<"production">>)
        /\ req[r].ts # NULL
        /\ Acked(r)
        /\ Len(posts[r]) = 2
        /\ genContent[r] # NULL
        /\ GenText(Val(genContent[r])) # EmptyStr

----------------------------------------------------------------------------
(* C21, C22 *)

\* the positions in posts[r] holding the post p
Occurrences(r, p) == {i \in 1..Len(posts[r]) : posts[r][i] = p}

\* C21: at most two callback POSTs are ever issued for one request: at most
\* one success POST and at most one fallback POST, the success POST first when
\* both exist, and no POST is issued again after a failure.
C21_AtMostTwoPostsNoRetry ==
    \A r \in RS :
        /\ Len(posts[r]) <= 2
        /\ Cardinality(Occurrences(r, FallbackPost(r))) <= 1
        /\ genContent[r] # NULL =>
              Cardinality(Occurrences(r, SuccessPost(r))) <= 1
        /\ Len(posts[r]) = 2 =>
              /\ genContent[r] # NULL
              /\ posts[r][1] = SuccessPost(r)
              /\ posts[r][2] = FallbackPost(r)
              /\ posts[r][1] # posts[r][2]
        /\ Len(fetched[r]) <= Len(posts[r])

C21_Witness ==
    \E r \in RS : /\ TaskDone(r)
                  /\ fetched[r] = <<"rejected", "rejected">>
                  /\ Len(posts[r]) = 2

\* the timer fired after the generation call had resolved
TimerLost(r) ==
    timer[r] = "fired" /\ elapsed[r] = "genSettled" /\ api[r] = "resolved"

\* C22: a timer that fires after the generation call resolved is harmless:
\* the step in which it fires issues no POST, logs nothing and leaves the task
\* where it is; the text delivered stays the generation text, and a fallback
\* POST exists only for a failed success POST.
C22_LateTimerHarmless ==
    /\ [][\A r \in RS :
             (timer[r] = "armed" /\ timer'[r] = "fired" /\ api[r] = "resolved")
                => /\ posts'[r] = posts[r]
                   /\ tpc'[r] = tpc[r]
                   /\ logs'[r] = logs[r]
                   /\ genContent'[r] = genContent[r]]_vars
    /\ [](\A r \in RS : TimerLost(r) =>
             /\ tpc[r] \in TaskPositions \ {"none", "registered", "awaitGen"}
             /\ posts[r] # << >>
             /\ posts[r][1] = SuccessPost(r)
             /\ Len(posts[r]) > 1 => "Failed to send response to Slack:" \in logs[r]
             /\ "Claude error:" \in logs[r] =>
                   "Failed to send response to Slack:" \in logs[r])

C22_Witness ==
    \E r \in RS : /\ TimerLost(r)
                  /\ tpc[r] = "awaitFetch"
                  /\ posts[r] = <<SuccessPost(r)>>
                  /\ logs[r] = {}

====
